---- MODULE Spec2Model ----
(***************************************************************************)
(* Model of the Fotobox printer dashboard (src/flet_app.py): the history   *)
(* loader (get_data, _prepare_history_df), the status classifier           *)
(* (evaluate_status_simple), the rate estimator (compute_print_stats), the *)
(* duration formatter (humanize_minutes) and the poll loop                 *)
(* (FotoboxApp.live_loop / update_status).                                 *)
(*                                                                         *)
(* Conventions                                                             *)
(*  - a Python str that the code inspects (raw_status, the sheet id) is a  *)
(*    sequence of one-character strings, so that lower(), strip() and the  *)
(*    `in` containment test are computed, not assumed;                     *)
(*  - a point in time is an integer number of seconds; a Timestamp cell is *)
(*    [ok, t]: ok says whether pd.to_datetime parses the text, t is the    *)
(*    instant it parses to;                                                *)
(*  - a Python float is an exact fraction [none, n, d] with d > 0, None    *)
(*    being [none |-> TRUE, ...];                                          *)
(*  - a formatted text (an f-string) is a record of its template and the   *)
(*    values put into it.                                                  *)
(***************************************************************************)
EXTENDS Integers, Sequences, FiniteSets, TLC

VARIABLES
    pc,                   \* live_loop: "update_status", "sleep" or "dead"
    environ,              \* os.environ: the sheet ids configured in .env
    sheet_id_field,       \* self.sheet_id_field.value
    printer_dropdown,     \* self.printer_dropdown.value
    status_text,          \* self.status_text.value
    status_badge_value,   \* self.status_badge.content.value
    status_badge_bgcolor, \* self.status_badge.bgcolor
    timestamp_text,       \* self.timestamp_text.value
    progress_bar,         \* self.progress_bar.value
    progress_label,       \* self.progress_label.value
    stats_text,           \* self.stats_text.value
    log_text,             \* newest line of self.log_text.value
    sheet,                \* the worksheet "DruckerStatus" as it is now
    fetch,                \* what the last get_data call met and returned
    eval_call,            \* arguments of the last evaluate_status_simple call
    eval_ret,             \* its return value
    stats_call,           \* arguments of the last compute_print_stats call
    stats_ret,            \* its normalized series and its return value
    live_loops,           \* how many live_loop tasks page.run_task started
    sleep_left,           \* seconds left of the asyncio.sleep in progress
    since_cycle,          \* seconds since update_status last returned, capped
    humanize_call,        \* argument of the last humanize_minutes call
    humanize_ret          \* its return value

vars == <<pc, environ, sheet_id_field, printer_dropdown, status_text,
          status_badge_value, status_badge_bgcolor, timestamp_text,
          progress_bar, progress_label, stats_text, log_text, sheet, fetch,
          eval_call, eval_ret, stats_call, stats_ret, live_loops,
          sleep_left, since_cycle, humanize_call, humanize_ret>>

ui_vars == <<status_text, status_badge_value, status_badge_bgcolor,
             timestamp_text, progress_bar, progress_label, stats_text>>

\* the scheduling of the live loop
sched_vars == <<live_loops, sleep_left, since_cycle>>

\* the call of humanize_minutes studied on its own
humanize_vars == <<humanize_call, humanize_ret>>

-----------------------------------------------------------------------------
(* Python values                                                           *)

\* Python None where a float is expected
None_ == [none |-> TRUE, n |-> 0, d |-> 1]

\* the float n / d
Float(n, d) == [none |-> FALSE, n |-> n, d |-> d]

\* x > k for a float x and an integer k
FloatGt(x, k) == x.n > k * x.d

\* x >= k for a float x and an integer k
FloatGe(x, k) == x.n >= k * x.d

\* int(x): truncation toward zero
PyInt(x) == IF x.n >= 0 THEN x.n \div x.d ELSE -((-x.n) \div x.d)

\* max(a, b) on integers
Max(a, b) == IF a >= b THEN a ELSE b

\* an f-string: its template, the text and the numbers put into it
Fmt(fmt, raw, nums) == [fmt |-> fmt, raw |-> raw, nums |-> nums]

-----------------------------------------------------------------------------
(* str.lower(), str.strip(), `k in s`                                      *)

UpperChars == <<"A", "B", "C", "D", "E", "F", "G", "H", "I", "J", "K", "L", "M",
                "N", "O", "P", "Q", "R", "S", "T", "U", "V", "W", "X", "Y", "Z">>
LowerChars == <<"a", "b", "c", "d", "e", "f", "g", "h", "i", "j", "k", "l", "m",
                "n", "o", "p", "q", "r", "s", "t", "u", "v", "w", "x", "y", "z">>
Whitespace == {" ", "\n", "\t"}

LowerChar(c) ==
    IF \E i \in 1..Len(UpperChars) : UpperChars[i] = c
    THEN LowerChars[CHOOSE i \in 1..Len(UpperChars) : UpperChars[i] = c]
    ELSE c

\* s.lower()
Lower(s) == [i \in 1..Len(s) |-> LowerChar(s[i])]

\* s.strip(): leading and trailing whitespace removed
Strip(s) ==
    LET keep == {i \in 1..Len(s) : s[i] \notin Whitespace}
    IN  IF keep = {} THEN <<>>
        ELSE LET lo == CHOOSE i \in keep : \A j \in keep : i <= j
                 hi == CHOOSE i \in keep : \A j \in keep : i >= j
             IN  SubSeq(s, lo, hi)

\* k in s
Contains(k, s) ==
    \E i \in 0..(Len(s) - Len(k)) : SubSeq(s, i + 1, i + Len(k)) = k

\* any(k in s for k in kws)
AnyIn(kws, s) == \E i \in 1..Len(kws) : Contains(kws[i], s)

-----------------------------------------------------------------------------
(* evaluate_status_simple                                                  *)

HEARTBEAT_WARN_MINUTES == 60

hard_errors == <<
    <<"p", "a", "p", "e", "r", " ", "e", "n", "d">>,
    <<"r", "i", "b", "b", "o", "n", " ", "e", "n", "d">>,
    <<"p", "a", "p", "e", "r", " ", "j", "a", "m">>,
    <<"r", "i", "b", "b", "o", "n", " ", "e", "r", "r", "o", "r">>,
    <<"p", "a", "p", "e", "r", " ", "d", "e", "f", "i", "n", "i", "t", "i", "o", "n", " ", "e", "r", "r", "o", "r">>,
    <<"d", "a", "t", "a", " ", "e", "r", "r", "o", "r">> >>
cover_open_kw == << <<"c", "o", "v", "e", "r", " ", "o", "p", "e", "n">> >>
cooldown_kw == << <<"h", "e", "a", "d", " ", "c", "o", "o", "l", "i", "n", "g", " ", "d", "o", "w", "n">> >>
printing_kw == <<
    <<"p", "r", "i", "n", "t", "i", "n", "g">>,
    <<"p", "r", "o", "c", "e", "s", "s", "i", "n", "g">>,
    <<"d", "r", "u", "c", "k", "e", "n">> >>
idle_kw == <<
    <<"i", "d", "l", "e">>,
    <<"s", "t", "a", "n", "d", "b", "y", " ", "m", "o", "d", "e">> >>

\* (status_mode, display_text, display_color) before the heartbeat check
Candidate(mode, text, color) ==
    [status_mode |-> mode, display_text |-> text, display_color |-> color]

\* a plausible slip: the low-paper rule placed after the text rules
candidate_status_low_paper_late(raw_status, media_remaining, warning_threshold) ==
    LET raw_status_l == Strip(Lower(raw_status))
    IN  IF AnyIn(hard_errors, raw_status_l)
        THEN Candidate("error", Fmt("STOERUNG: {raw_status}", raw_status, <<>>), "red")
        ELSE IF AnyIn(cover_open_kw, raw_status_l)
        THEN Candidate("cover_open", Fmt("Deckel offen!", <<>>, <<>>), "orange")
        ELSE IF AnyIn(cooldown_kw, raw_status_l)
        THEN Candidate("cooldown", Fmt("Kopf kuehlt ab", <<>>, <<>>), "orange")
        ELSE IF AnyIn(printing_kw, raw_status_l)
        THEN Candidate("printing", Fmt("Druckt gerade", <<>>, <<>>), "green")
        ELSE IF media_remaining <= warning_threshold
        THEN Candidate("low_paper",
                       Fmt("Papier fast leer - {media_remaining} Bilder uebrig",
                           <<>>, <<media_remaining>>), "orange")
        ELSE IF AnyIn(idle_kw, raw_status_l) \/ raw_status_l = <<>>
        THEN Candidate("ready", Fmt("Bereit", <<>>, <<>>), "green")
        ELSE Candidate("ready", Fmt("Bereit ({raw_status})", raw_status, <<>>), "green")

\* lines 183-237: the if/elif chain over the lower-cased, trimmed text
candidate_status(raw_status, media_remaining, warning_threshold) ==
    LET raw_status_l == Strip(Lower(raw_status))
    IN  IF AnyIn(hard_errors, raw_status_l)
        THEN Candidate("error", Fmt("STOERUNG: {raw_status}", raw_status, <<>>), "red")
        ELSE IF AnyIn(cover_open_kw, raw_status_l)
        THEN Candidate("cover_open", Fmt("Deckel offen!", <<>>, <<>>), "orange")
        ELSE IF media_remaining <= warning_threshold
        THEN Candidate("low_paper",
                       Fmt("Papier fast leer - {media_remaining} Bilder uebrig",
                           <<>>, <<media_remaining>>), "orange")
        ELSE IF AnyIn(cooldown_kw, raw_status_l)
        THEN Candidate("cooldown", Fmt("Kopf kuehlt ab", <<>>, <<>>), "orange")
        ELSE IF AnyIn(printing_kw, raw_status_l)
        THEN Candidate("printing", Fmt("Druckt gerade", <<>>, <<>>), "green")
        ELSE IF AnyIn(idle_kw, raw_status_l) \/ raw_status_l = <<>>
        THEN Candidate("ready", Fmt("Bereit", <<>>, <<>>), "green")
        ELSE Candidate("ready", Fmt("Bereit ({raw_status})", raw_status, <<>>), "green")

\* pd.to_datetime(timestamp, errors="coerce"): NaT when the text does not parse
NaT == [nat |-> TRUE, t |-> 0]
to_datetime(cell) == IF cell.ok THEN [nat |-> FALSE, t |-> cell.t] ELSE NaT

\* a plausible slip: >= instead of > at the heartbeat threshold
heartbeat_override_inclusive(cand, timestamp, now_ts) ==
    LET ts_parsed == to_datetime(timestamp)
    IN  IF ts_parsed.nat
        THEN cand @@ [minutes_diff |-> None_]
        ELSE LET minutes_diff == Float(now_ts - ts_parsed.t, 60)
             IN  IF FloatGe(minutes_diff, HEARTBEAT_WARN_MINUTES)
                 THEN [status_mode |-> "stale",
                       display_text |-> Fmt("Keine aktuellen Daten (seit {int(minutes_diff)} Min)",
                                            <<>>, <<PyInt(minutes_diff)>>),
                       display_color |-> "orange",
                       minutes_diff |-> minutes_diff]
                 ELSE cand @@ [minutes_diff |-> minutes_diff]

\* lines 239-252: the heartbeat check, which may override the candidate
heartbeat_override(cand, timestamp, now_ts) ==
    LET ts_parsed == to_datetime(timestamp)
    IN  IF ts_parsed.nat
        THEN cand @@ [minutes_diff |-> None_]
        ELSE LET minutes_diff == Float(now_ts - ts_parsed.t, 60)
             IN  IF FloatGt(minutes_diff, HEARTBEAT_WARN_MINUTES)
                 THEN [status_mode |-> "stale",
                       display_text |-> Fmt("Keine aktuellen Daten (seit {int(minutes_diff)} Min)",
                                            <<>>, <<PyInt(minutes_diff)>>),
                       display_color |-> "orange",
                       minutes_diff |-> minutes_diff]
                 ELSE cand @@ [minutes_diff |-> minutes_diff]

\* evaluate_status_simple; now_ts is what datetime.datetime.now(LOCAL_TZ) reads
evaluate_status_simple(raw_status, media_remaining, timestamp, warning_threshold, now_ts) ==
    heartbeat_override(
        candidate_status(raw_status, media_remaining, warning_threshold),
        timestamp, now_ts)

-----------------------------------------------------------------------------
(* The history table                                                       *)
(*                                                                         *)
(* A DataFrame is [columns, rows]; a row carries a Timestamp cell [ok, t], *)
(* a Status text and a MediaRemaining cell [kind, v]: kind "int" is a      *)
(* number, "text" a non-numeric text (an empty cell included), "nan" a     *)
(* missing value.  A field whose column is absent is never read.           *)

\* pd.DataFrame()
EmptyDataFrame == [columns |-> {}, rows |-> <<>>]

\* df.empty
df_empty(df) == df.rows = <<>> \/ df.columns = {}

\* pd.isna on a MediaRemaining cell
isna(cell) == cell.kind = "nan"

\* pd.to_numeric(cell, errors="coerce"): NaN for what is no number
to_numeric(cell) == IF cell.kind = "int" THEN [nan |-> FALSE, v |-> cell.v]
                    ELSE [nan |-> TRUE, v |-> 0]

\* df[col] raises KeyError when the column is absent
getitem_raises(df, col) == col \notin df.columns

\* line 89: pd.DataFrame(records); no record gives no column
DataFrame(records) == IF records.rows = <<>> THEN EmptyDataFrame ELSE records

\* a slip: the exception a read met leaves get_data
get_data_propagating(outcome) ==
    [raised |-> outcome.raises,
     df |-> IF outcome.raises THEN EmptyDataFrame ELSE DataFrame(outcome.records)]

\* get_data (lines 79-94): the worksheet's records as a DataFrame, an empty
\* DataFrame when the read raises
get_data(outcome) ==
    IF outcome.raises
    THEN [raised |-> FALSE, df |-> EmptyDataFrame]
    ELSE [raised |-> FALSE, df |-> DataFrame(outcome.records)]

\* lines 106-107: the Timestamp column parsed, rows with NaT or a missing
\* MediaRemaining dropped
parse_and_dropna(rows) ==
    LET parsed == [i \in 1..Len(rows) |->
                     [Timestamp |-> to_datetime(rows[i].Timestamp),
                      Status |-> rows[i].Status,
                      MediaRemaining |-> rows[i].MediaRemaining]]
        keep(r) == ~r.Timestamp.nat /\ ~isna(r.MediaRemaining)
    IN  SelectSeq(parsed, keep)

\* the permutations of 1..n
Permutations_(n) ==
    {p \in [1..n -> 1..n] : \A i, j \in 1..n : i # j => p[i] # p[j]}

\* line 111: df.sort_values("Timestamp").  The default kind is quicksort,
\* which pandas documents as not stable: the result is ascending, and rows
\* of equal Timestamp come in an order the call does not fix.  (numpy's
\* quicksort sorts short runs by insertion and moves equal keys past each
\* other when it partitions, so the reordering shows on tables longer than
\* its 16-element cut-off; the model lets ties come in any order at every
\* length, a history of a few rows standing for a long one.)
sort_values(rows) ==
    {[i \in 1..Len(rows) |-> rows[p[i]]] :
        p \in {q \in Permutations_(Len(rows)) :
                 \A i, j \in 1..Len(rows) :
                    i < j => rows[q[i]].Timestamp.t <= rows[q[j]].Timestamp.t}}

\* lines 112-114: the index set, MediaRemaining made numeric, NaN rows dropped
to_numeric_and_dropna(rows) ==
    LET keep(r) == ~to_numeric(r.MediaRemaining).nan
        kept == SelectSeq(rows, keep)
    IN  [i \in 1..Len(kept) |->
            [Timestamp |-> kept[i].Timestamp.t,
             Status |-> kept[i].Status,
             MediaRemaining |-> to_numeric(kept[i].MediaRemaining).v]]

\* _prepare_history_df: every series the call may return
_prepare_history_df(df) ==
    IF df_empty(df)
    THEN {[raised |-> FALSE, rows |-> <<>>]}
    ELSE IF "Timestamp" \notin df.columns \/ "MediaRemaining" \notin df.columns
    THEN {[raised |-> FALSE, rows |-> <<>>]}
    ELSE IF getitem_raises(df, "Timestamp") \/ getitem_raises(df, "MediaRemaining")
    THEN {[raised |-> TRUE, rows |-> <<>>]}
    ELSE {[raised |-> FALSE, rows |-> to_numeric_and_dropna(s)] :
             s \in sort_values(parse_and_dropna(df.rows))}

-----------------------------------------------------------------------------
(* compute_print_stats, humanize_minutes                                   *)

\* a / x for an integer a and a float x # 0
IntDivFloat(a, x) == Float(a * x.d, x.n)

\* the dict compute_print_stats returns; raised: an exception left the call
StatsResult(raised, prints_total, duration_min, ppm_overall, ppm_window) ==
    [raised |-> raised, prints_total |-> prints_total,
     duration_min |-> duration_min, ppm_overall |-> ppm_overall,
     ppm_window |-> ppm_window]

\* a slip: the difference not clamped at zero
consumed_unclamped(first_media_raw, last_media_raw, media_factor) ==
    (first_media_raw - last_media_raw) * media_factor

\* lines 138, 152: max(0, (first - last) * media_factor)
consumed(first_media_raw, last_media_raw, media_factor) ==
    Max(0, (first_media_raw - last_media_raw) * media_factor)

\* lines 139, 153: (index[-1] - index[0]).total_seconds() / 60.0
minutes_between(rows) == Float(rows[Len(rows)].Timestamp - rows[1].Timestamp, 60)

\* a slip: a rate reported as soon as time has passed, consumption or not
rate_if_positive_duration_only(prints, duration) ==
    IF FloatGt(duration, 0) THEN IntDivFloat(prints, duration) ELSE None_

\* lines 144-145, 154-155: the rate, only when both are strictly positive
rate_if_positive(prints, duration) ==
    IF FloatGt(duration, 0) /\ prints > 0
    THEN IntDivFloat(prints, duration)
    ELSE None_

\* a slip: the window boundary excluded
window_rows_exclusive(rows, window_min) ==
    LET window_start == rows[Len(rows)].Timestamp - window_min * 60
        inwin(r) == r.Timestamp > window_start
    IN  SelectSeq(rows, inwin)

\* lines 147-148: the rows at or after (last timestamp - window_min)
window_rows(rows, window_min) ==
    LET window_start == rows[Len(rows)].Timestamp - window_min * 60
        inwin(r) == r.Timestamp >= window_start
    IN  SelectSeq(rows, inwin)

\* compute_print_stats on the series prep that _prepare_history_df returned
compute_print_stats(prep, window_min, media_factor) ==
    IF prep.raised
    THEN StatsResult(TRUE, 0, Float(0, 1), None_, None_)
    ELSE IF Len(prep.rows) < 2
    THEN StatsResult(FALSE, 0, Float(0, 1), None_, None_)
    ELSE LET df == prep.rows
             prints_total == consumed(df[1].MediaRemaining,
                                      df[Len(df)].MediaRemaining, media_factor)
             duration_min == minutes_between(df)
             dfw == window_rows(df, window_min)
             ppm_window ==
                 IF Len(dfw) >= 2
                 THEN rate_if_positive(
                          consumed(dfw[1].MediaRemaining,
                                   dfw[Len(dfw)].MediaRemaining, media_factor),
                          minutes_between(dfw))
                 ELSE None_
         IN  StatsResult(FALSE, prints_total, duration_min,
                         rate_if_positive(prints_total, duration_min), ppm_window)

\* a slip: the minutes rounded to the nearest whole number, not truncated
humanize_minutes_rounding(minutes) ==
    IF minutes.none \/ ~FloatGt(minutes, 0)
    THEN Fmt("0 Min.", <<>>, <<>>)
    ELSE LET m == (2 * minutes.n + minutes.d) \div (2 * minutes.d)
             h == m \div 60
             r == m % 60
         IN  IF h > 0
             THEN Fmt("{h} Std. {r} Min.", <<>>, <<h, r>>)
             ELSE Fmt("{r} Min.", <<>>, <<r>>)

\* humanize_minutes: "0 Min.", "{r} Min." or "{h} Std. {r} Min."
humanize_minutes(minutes) ==
    IF minutes.none \/ ~FloatGt(minutes, 0)
    THEN Fmt("0 Min.", <<>>, <<>>)
    ELSE LET m == PyInt(minutes)
             h == m \div 60
             r == m % 60
         IN  IF h > 0
             THEN Fmt("{h} Std. {r} Min.", <<>>, <<h, r>>)
             ELSE Fmt("{r} Min.", <<>>, <<r>>)

\* str(n) of an int n >= 0, as an f-string field prints it
RECURSIVE str_int(_)
str_int(n) ==
    LET digit == <<"0", "1", "2", "3", "4", "5", "6", "7", "8", "9">>[(n % 10) + 1]
    IN  IF n < 10 THEN <<digit>> ELSE str_int(n \div 10) \o <<digit>>

\* the str humanize_minutes returns (lines 162, 167, 169): its f-string
\* with the numbers put in
humanize_text(f) ==
    IF f.fmt = "0 Min." THEN <<"0", " ", "M", "i", "n", ".">>
    ELSE IF f.fmt = "{r} Min." THEN str_int(f.nums[1]) \o <<" ", "M", "i", "n", ".">>
    ELSE str_int(f.nums[1]) \o <<" ", "S", "t", "d", ".", " ">> \o str_int(f.nums[2]) \o <<" ", "M", "i", "n", ".">>

-----------------------------------------------------------------------------
(* FotoboxApp                                                              *)

\* PRINTERS (lines 40-63); cost_per_roll_eur and the rest as configured
PRINTERS ==
    [name \in {"die Fotobox", "Weinkellerei"} |->
        IF name = "die Fotobox"
        THEN [warning_threshold |-> 20, default_max_prints |-> 400,
              cost_per_roll_eur |-> 45, media_factor |-> 1,
              env_sheet_key |-> "GOOGLE_SHEET_ID_DIEFOTOBOX"]
        ELSE [warning_threshold |-> 20, default_max_prints |-> 400,
              cost_per_roll_eur |-> 60, media_factor |-> 2,
              env_sheet_key |-> "GOOGLE_SHEET_ID_WEINKELLEREI"]]

\* the columns update_status requires (line 551)
required_cols == {"Timestamp", "Status", "MediaRemaining"}

\* a text with nothing put into it
Plain(fmt) == Fmt(fmt, <<>>, <<>>)

\* a Timestamp cell that holds no date
NoTimestamp == [ok |-> FALSE, t |-> 0]

\* the timestamp line: its template, the Timestamp cell's text, the minutes
TsFmt(fmt, ts, nums) == [fmt |-> fmt, ts |-> ts, nums |-> nums]

\* one line of the statistics text
StatsLine(fmt, nums, text) == [fmt |-> fmt, nums |-> nums, text |-> text]

\* f"{x:0.2f}" of a non-negative float, in hundredths
Format2f(x) == (2 * 100 * x.n + x.d) \div (2 * x.d)

\* int(cell): raises for what is no number
py_int(cell) == [raised |-> cell.kind # "int", v |-> cell.v]

\* a slip: int() outside any try
media_remaining_raw_unguarded(cell) == py_int(cell)

\* lines 572-575: int(last.get("MediaRemaining", 0)), 0 when it raises
media_remaining_raw_of(cell) ==
    IF py_int(cell).raised THEN [raised |-> FALSE, v |-> 0] ELSE py_int(cell)

\* line 524: the sheet id of this cycle
resolve_sheet_id(field, env) ==
    IF Strip(field) # <<>> THEN Strip(field) ELSE env["GOOGLE_SHEET_ID"]

\* a slip: the row count not looked at before the columns
cycle_branch_schema_first(df) ==
    IF ~(required_cols \subseteq df.columns) THEN "schema"
    ELSE IF df_empty(df) THEN "no_rows"
    ELSE "data"

\* lines 539, 552: what a cycle does with the table it fetched
cycle_branch(df) ==
    IF df_empty(df) THEN "no_rows"
    ELSE IF ~(required_cols \subseteq df.columns) THEN "schema"
    ELSE "data"

\* line 568: last = df.iloc[-1], the last row of the table as fetched
latest_row(df) == df.rows[Len(df.rows)]

\* lines 588-593
badge_bgcolor(status_mode) ==
    IF status_mode = "error" THEN "RED_200"
    ELSE IF status_mode \in {"low_paper", "cover_open", "cooldown", "stale"}
    THEN "ORANGE_200"
    ELSE "GREEN_200"

\* str.upper() of a status_mode
Upper(mode) ==
    CASE mode = "error" -> "ERROR"
      [] mode = "cover_open" -> "COVER_OPEN"
      [] mode = "low_paper" -> "LOW_PAPER"
      [] mode = "cooldown" -> "COOLDOWN"
      [] mode = "printing" -> "PRINTING"
      [] mode = "ready" -> "READY"
      [] mode = "stale" -> "STALE"

\* lines 601-604: the paper progress, clamped to [0, 1]
progress_value(status_mode, media_remaining, max_prints) ==
    IF status_mode = "error" /\ media_remaining = 0 THEN Float(0, 1)
    ELSE IF media_remaining <= 0 THEN Float(0, 1)
    ELSE IF media_remaining >= max_prints THEN Float(1, 1)
    ELSE Float(media_remaining, max_prints)

\* lines 616-629: the lines of the statistics text
stats_lines(stats, cost_per_roll, max_prints) ==
    <<StatsLine("Verbrauch seit Start: {prints_total} Drucke in {humanize_minutes(duration_min)}",
                <<stats.prints_total>>, humanize_minutes(stats.duration_min))>>
    \o (IF ~stats.ppm_overall.none /\ stats.ppm_overall.n # 0
        THEN <<StatsLine("Geschwindigkeit: {ppm_overall:0.2f} Drucke/Min",
                         <<Format2f(stats.ppm_overall)>>, Plain(""))>>
        ELSE <<>>)
    \o (IF ~stats.ppm_window.none /\ stats.ppm_window.n # 0
        THEN <<StatsLine("Letzte 30 Min: {ppm_window:0.2f} Drucke/Min",
                         <<Format2f(stats.ppm_window)>>, Plain(""))>>
        ELSE <<>>)
    \o (IF cost_per_roll # 0 /\ max_prints > 0
        THEN <<StatsLine("Kosten seit Start (ca.): {cost_used:0.2f} EUR",
                         <<Format2f(Float(stats.prints_total * cost_per_roll, max_prints))>>,
                         Plain(""))>>
        ELSE <<>>)

\* the displayed fields of self
Display(st, ts, bv, bc, pb, pl, sx) ==
    [status_text |-> st, timestamp_text |-> ts, status_badge_value |-> bv,
     status_badge_bgcolor |-> bc, progress_bar |-> pb, progress_label |-> pl,
     stats_text |-> sx]

\* what one call of update_status leaves behind: whether an exception left
\* it, the displayed fields, the newest log line, and the calls it made
Cycle(raised, display, log, f, ec, er, sc, sr) ==
    [raised |-> raised, display |-> display, log |-> log, fetch |-> f,
     eval_call |-> ec, eval_ret |-> er, stats_call |-> sc, stats_ret |-> sr]

\* update_status (lines 523-631).  self: the fields it reads and writes;
\* outcome: what the read of the worksheet meets; now_ts: the clock;
\* prep: the series _prepare_history_df returns inside compute_print_stats.
update_status(self, outcome, now_ts, prep) ==
    LET sheet_id == resolve_sheet_id(self.sheet_id_field, self.environ)
        printer_cfg == PRINTERS[self.printer_dropdown]
        media_factor == printer_cfg.media_factor
        warning_threshold == printer_cfg.warning_threshold
        max_prints == printer_cfg.default_max_prints
        cost_per_roll == printer_cfg.cost_per_roll_eur
        got == get_data(outcome)
        df == got.df
        fetched == <<[outcome |-> outcome, raised |-> got.raised, df |-> df]>>
        branch == cycle_branch(df)
        last == latest_row(df)
        timestamp == last.Timestamp
        raw_status == last.Status
        mraw == media_remaining_raw_of(last.MediaRemaining)
        media_remaining == mraw.v * media_factor
        ecall == [raw_status |-> raw_status, media_remaining |-> media_remaining,
                  timestamp |-> timestamp, warning_threshold |-> warning_threshold,
                  now_ts |-> now_ts]
        ev == evaluate_status_simple(raw_status, media_remaining, timestamp,
                                     warning_threshold, now_ts)
        scall == [df |-> df, window_min |-> 30, media_factor |-> media_factor]
        stats == compute_print_stats(prep, 30, media_factor)
        shown == Display(
            ev.display_text,
            IF ~ev.minutes_diff.none
            THEN TsFmt("Letztes Signal: {timestamp} (vor {int(minutes_diff)} Min)",
                       timestamp, <<PyInt(ev.minutes_diff)>>)
            ELSE TsFmt("Letztes Signal: {timestamp}", timestamp, <<>>),
            Upper(ev.status_mode),
            badge_bgcolor(ev.status_mode),
            progress_value(ev.status_mode, media_remaining, max_prints),
            Fmt("Papierstatus: {media_remaining} von {max_prints} Drucken verbleibend",
                <<>>, <<media_remaining, max_prints>>),
            self.display.stats_text)
        loaded == Fmt("Daten geladen: {len(df)} Zeilen.", <<>>, <<Len(df.rows)>>)
    IN  IF sheet_id = <<>>
        THEN Cycle(FALSE,
                   [self.display EXCEPT !.status_text = Plain("Bitte Google Sheet ID eintragen.")],
                   self.log_text, <<>>, <<>>, <<>>, <<>>, <<>>)
        ELSE IF got.raised
        THEN Cycle(TRUE, self.display, self.log_text, fetched, <<>>, <<>>, <<>>, <<>>)
        ELSE IF branch = "no_rows"
        THEN Cycle(FALSE,
                   Display(Plain("System wartet auf Start... (Tab 'DruckerStatus' hat 0 Zeilen)"),
                           TsFmt("Noch keine Druckdaten im Google Sheet.", NoTimestamp, <<>>),
                           "-", "GREY_200", Float(0, 1), Plain("Papierstatus: -"), <<>>),
                   self.log_text, fetched, <<>>, <<>>, <<>>, <<>>)
        ELSE IF branch = "schema"
        THEN Cycle(FALSE,
                   Display([fmt |-> "Fehlende Spalten im Tab 'DruckerStatus': {missing}",
                            raw |-> <<>>,
                            nums |-> <<Cardinality(required_cols \ df.columns)>>],
                           TsFmt("Bitte Spaltennamen im Sheet pruefen.", NoTimestamp, <<>>),
                           "SCHEMA", "ORANGE_200", Float(0, 1), Plain("Papierstatus: -"), <<>>),
                   self.log_text, fetched, <<>>, <<>>, <<>>, <<>>)
        ELSE IF mraw.raised
        THEN Cycle(TRUE, self.display, loaded, fetched, <<>>, <<>>, <<>>, <<>>)
        ELSE IF stats.raised
        THEN Cycle(TRUE, shown, loaded, fetched, <<ecall>>, <<ev>>, <<scall>>,
                   <<[prep |-> prep, result |-> stats]>>)
        ELSE Cycle(FALSE, [shown EXCEPT !.stats_text = stats_lines(stats, cost_per_roll, max_prints)],
                   loaded, fetched, <<ecall>>, <<ev>>, <<scall>>,
                   <<[prep |-> prep, result |-> stats]>>)

\* apply_printer_sheet_from_env (lines 471-481): the field and the newest
\* log line after it
apply_printer_sheet_from_env(printer, env, field, log) ==
    LET sheet_id == env[PRINTERS[printer].env_sheet_key]
    IN  IF sheet_id # <<>>
        THEN [field |-> sheet_id, log |-> Plain("Sheet-ID aus .env gesetzt ({env_key}).")]
        ELSE [field |-> field, log |-> log]

-----------------------------------------------------------------------------
(* Inputs                                                                  *)

\* the longest table a poll cycle fetches
MaxRows == 2

\* the longest table handed to the loader and the estimator on their own
MaxHist == 3

\* status texts as the printer driver writes them, and variations of them
RawStatuses ==
    {<<>>,
     <<" ", " ", " ">>,
     <<"I", "d", "l", "e">>,
     <<"P", "r", "i", "n", "t", "i", "n", "g">>,
     <<"P", "A", "P", "E", "R", " ", "J", "A", "M">>,
     <<" ", "P", "a", "p", "e", "r", " ", "J", "a", "m", " ">>,
     <<"C", "o", "v", "e", "r", " ", "O", "p", "e", "n">>,
     <<"H", "e", "a", "d", " ", "C", "o", "o", "l", "i", "n", "g", " ", "D", "o", "w", "n">>,
     <<"S", "t", "a", "n", "d", "b", "y", " ", "M", "o", "d", "e">>,
     <<"R", "e", "a", "d", "y">>,
     <<"D", "r", "u", "c", "k", "e", "n">>,
     <<"P", "r", "o", "c", "e", "s", "s", "i", "n", "g">>,
     <<"C", "o", "v", "e", "r", " ", "O", "p", "e", "n", " ", "-", " ", "P", "a", "p", "e", "r", " ", "E", "n", "d">>,
     <<"P", "r", "i", "n", "t", "i", "n", "g", ",", " ", "H", "e", "a", "d", " ", "C", "o", "o", "l", "i", "n", "g", " ", "D", "o", "w", "n">>,
     <<"R", "i", "b", "b", "o", "n", " ", "E", "n", "d">>,
     <<"D", "a", "t", "a", " ", "E", "r", "r", "o", "r">>,
     <<"P", "a", "p", "e", "r", " ", "D", "e", "f", "i", "n", "i", "t", "i", "o", "n", " ", "E", "r", "r", "o", "r">>,
     <<"R", "i", "b", "b", "o", "n", " ", "E", "r", "r", "o", "r">>,
     <<"P", "a", "p", "e", "r", " ", " ", "J", "a", "m">>,
     <<"I", "d", "l", "e", "\n">>,
     <<"P", "R", "I", "N", "T", "I", "N", "G">>}

\* Timestamp cells: a text that parses to second t, a text that does not
Ts(t) == [ok |-> TRUE, t |-> t]
BadTs == [ok |-> FALSE, t |-> 0]

\* MediaRemaining cells
Num(v) == [kind |-> "int", v |-> v]
NotNum == [kind |-> "text", v |-> 0]
NaN == [kind |-> "nan", v |-> 0]

Row(ts, status, media) == [Timestamp |-> ts, Status |-> status, MediaRemaining |-> media]

\* rows of a history: a ten-minute print run, a tie, a refill, the edge of
\* the 30-minute window, and rows that do not parse
Rows ==
    {Row(Ts(0), <<"I", "d", "l", "e">>, Num(400)),
     Row(Ts(600), <<"P", "r", "i", "n", "t", "i", "n", "g">>, Num(350)),
     Row(Ts(600), <<"I", "d", "l", "e">>, Num(18)),
     Row(Ts(2400), <<"I", "d", "l", "e">>, Num(340)),
     Row(Ts(2401), <<>>, Num(390)),
     Row(BadTs, <<"P", "A", "P", "E", "R", " ", "J", "A", "M">>, Num(0)),
     Row(Ts(1200), <<"I", "d", "l", "e">>, NotNum),
     Row(Ts(1800), <<"H", "e", "a", "d", " ", "C", "o", "o", "l", "i", "n", "g", " ", "D", "o", "w", "n">>, NaN)}

\* the sequences over S of length at most n
SeqsUpTo(S, n) == UNION {[1..k -> S] : k \in 0..n}

\* the rows a printer appends to the worksheet a session polls
AppRows ==
    {Row(Ts(0), <<"I", "d", "l", "e">>, Num(400)),
     Row(Ts(600), <<"P", "r", "i", "n", "t", "i", "n", "g">>, Num(350)),
     Row(BadTs, <<"P", "A", "P", "E", "R", " ", "J", "A", "M">>, Num(0)),
     Row(Ts(1200), <<"I", "d", "l", "e">>, NotNum)}

\* the column sets of a worksheet: all required columns, or one missing
ColumnSets == {required_cols} \cup {required_cols \ {c} : c \in required_cols}

\* the worksheets of at most n rows
Sheets(n) == {[columns |-> cs, rows |-> rows] : cs \in ColumnSets, rows \in SeqsUpTo(Rows, n)}

\* the clock readings of a poll cycle, in seconds
NowValues == {3000, 6001}

\* os.environ: nothing configured, or a default and the first printer's id
Environs ==
    {[k \in {"GOOGLE_SHEET_ID", "GOOGLE_SHEET_ID_DIEFOTOBOX", "GOOGLE_SHEET_ID_WEINKELLEREI"} |-> <<>>],
     [k \in {"GOOGLE_SHEET_ID", "GOOGLE_SHEET_ID_DIEFOTOBOX", "GOOGLE_SHEET_ID_WEINKELLEREI"} |->
        IF k = "GOOGLE_SHEET_ID" THEN <<"g">>
        ELSE IF k = "GOOGLE_SHEET_ID_DIEFOTOBOX" THEN <<"a">> ELSE <<>>]}

\* what the user types into the sheet id field
SheetIdInputs == {<<" ">>, <<"x">>}

-----------------------------------------------------------------------------
(* The dashboard session                                                   *)

\* the controls as FotoboxApp.__init__ builds them (lines 350-364)
InitialDisplay ==
    Display(Plain("System wartet auf Start..."), TsFmt("", NoTimestamp, <<>>),
            "-", "GREY_200", Float(0, 1), Plain("Papierstatus: -"), <<>>)

CurrentDisplay ==
    Display(status_text, timestamp_text, status_badge_value, status_badge_bgcolor,
            progress_bar, progress_label, stats_text)

SetDisplay(d) ==
    /\ status_text' = d.status_text
    /\ timestamp_text' = d.timestamp_text
    /\ status_badge_value' = d.status_badge_value
    /\ status_badge_bgcolor' = d.status_badge_bgcolor
    /\ progress_bar' = d.progress_bar
    /\ progress_label' = d.progress_label
    /\ stats_text' = d.stats_text

NoCalls ==
    /\ fetch = <<>>
    /\ eval_call = <<>>
    /\ eval_ret = <<>>
    /\ stats_call = <<>>
    /\ stats_ret = <<>>
    /\ humanize_call = <<>>
    /\ humanize_ret = <<>>

\* line 521: asyncio.sleep(10)
SLEEP_SECONDS == 10

\* the spans of time that pass in one step while the loop sleeps
Elapse == {5, 10}

\* FotoboxApp.__init__ (lines 301-467): the controls, the sheet id from the
\* environment, and the live loop started
Init ==
    /\ environ \in Environs
    /\ printer_dropdown = "die Fotobox"
    /\ LET applied == apply_printer_sheet_from_env(
                          "die Fotobox", environ, environ["GOOGLE_SHEET_ID"], Plain(""))
       IN  /\ sheet_id_field = applied.field
           /\ log_text = applied.log
    /\ status_text = InitialDisplay.status_text
    /\ timestamp_text = InitialDisplay.timestamp_text
    /\ status_badge_value = InitialDisplay.status_badge_value
    /\ status_badge_bgcolor = InitialDisplay.status_badge_bgcolor
    /\ progress_bar = InitialDisplay.progress_bar
    /\ progress_label = InitialDisplay.progress_label
    /\ stats_text = InitialDisplay.stats_text
    /\ pc = "update_status"
    /\ live_loops = 1
    /\ sleep_left = 0
    /\ since_cycle = SLEEP_SECONDS
    /\ sheet \in {[columns |-> cs, rows |-> <<>>] : cs \in ColumnSets}
    /\ NoCalls

\* live_loop, line 520: one call of update_status; an exception that leaves
\* it ends the loop.  The read of the worksheet returns its records or raises.
\* update_status has no await in its body and the read blocks, so the call
\* is one step however long the read takes; when it returns the loop enters
\* asyncio.sleep(10) (line 521).
UpdateStatus ==
    /\ pc = "update_status"
    /\ \E raises \in BOOLEAN, now_ts \in NowValues :
         LET outcome == [raises |-> raises,
                         records |-> IF raises THEN EmptyDataFrame ELSE sheet]
         IN  \E prep \in _prepare_history_df(get_data(outcome).df) :
                LET self == [sheet_id_field |-> sheet_id_field, environ |-> environ,
                             printer_dropdown |-> printer_dropdown,
                             display |-> CurrentDisplay, log_text |-> log_text]
                    c == update_status(self, outcome, now_ts, prep)
                IN  /\ SetDisplay(c.display)
                    /\ log_text' = c.log
                    /\ fetch' = c.fetch
                    /\ eval_call' = c.eval_call
                    /\ eval_ret' = c.eval_ret
                    /\ stats_call' = c.stats_call
                    /\ stats_ret' = c.stats_ret
                    /\ pc' = IF c.raised THEN "dead" ELSE "sleep"
                    /\ sleep_left' = IF c.raised THEN sleep_left ELSE SLEEP_SECONDS
    /\ since_cycle' = 0
    /\ UNCHANGED <<environ, sheet_id_field, printer_dropdown, sheet, live_loops>>
    /\ UNCHANGED humanize_vars

\* a slip: the sleep returns before its 10 seconds have passed
sleep_returns_early == sleep_left < SLEEP_SECONDS

\* the sleep is over when its 10 seconds have passed
sleep_done == sleep_left = 0

\* live_loop, line 521: asyncio.sleep(10) returns
Sleep ==
    /\ pc = "sleep"
    /\ sleep_done
    /\ pc' = "update_status"
    /\ UNCHANGED sched_vars
    /\ UNCHANGED humanize_vars
    /\ UNCHANGED <<environ, sheet_id_field, printer_dropdown, log_text, sheet,
                   fetch, eval_call, eval_ret, stats_call, stats_ret>>
    /\ UNCHANGED ui_vars

\* on_printer_change (lines 483-485); a handler runs while the loop sleeps
OnPrinterChange ==
    /\ pc = "sleep"
    /\ \E name \in DOMAIN PRINTERS :
         /\ name # printer_dropdown
         /\ printer_dropdown' = name
         /\ LET applied == apply_printer_sheet_from_env(
                               name, environ, sheet_id_field,
                               Plain("Drucker gewechselt auf: {printer}"))
            IN  /\ sheet_id_field' = applied.field
                /\ log_text' = applied.log
    /\ UNCHANGED <<pc, environ, sheet, fetch, eval_call, eval_ret, stats_call, stats_ret>>
    /\ UNCHANGED ui_vars
    /\ UNCHANGED sched_vars
    /\ UNCHANGED humanize_vars

\* on_sheet_change (lines 487-488): the field holds what the user typed
OnSheetChange ==
    /\ pc = "sleep"
    /\ \E value \in SheetIdInputs :
         /\ value # sheet_id_field
         /\ sheet_id_field' = value
    /\ log_text' = Plain("Sheet-ID manuell geaendert.")
    /\ UNCHANGED <<pc, environ, printer_dropdown, sheet, fetch, eval_call, eval_ret,
                   stats_call, stats_ret>>
    /\ UNCHANGED ui_vars
    /\ UNCHANGED sched_vars
    /\ UNCHANGED humanize_vars

\* the printer's logger appends a row to the worksheet
AppendRow ==
    /\ Len(sheet.rows) < MaxRows
    /\ \E r \in AppRows : sheet' = [sheet EXCEPT !.rows = Append(@, r)]
    /\ UNCHANGED <<pc, environ, sheet_id_field, printer_dropdown, log_text, fetch,
                   eval_call, eval_ret, stats_call, stats_ret>>
    /\ UNCHANGED ui_vars
    /\ UNCHANGED sched_vars
    /\ UNCHANGED humanize_vars

\* time passes while the loop sleeps (line 521)
TimePasses ==
    /\ pc = "sleep"
    /\ \E d \in Elapse :
         /\ d <= sleep_left
         /\ sleep_left' = sleep_left - d
         /\ since_cycle' = IF since_cycle + d <= SLEEP_SECONDS
                           THEN since_cycle + d ELSE SLEEP_SECONDS
    /\ UNCHANGED <<pc, environ, sheet_id_field, printer_dropdown, log_text, sheet,
                   fetch, eval_call, eval_ret, stats_call, stats_ret, live_loops>>
    /\ UNCHANGED ui_vars
    /\ UNCHANGED humanize_vars

Next ==
    \/ UpdateStatus
    \/ Sleep
    \/ TimePasses
    \/ OnPrinterChange
    \/ OnSheetChange
    \/ AppendRow

Spec == Init /\ [][Next]_vars

-----------------------------------------------------------------------------
(* The classifier on its own: every input of a bounded set, one call       *)

EvalMedia == {0, 19, 20, 21, 350}
EvalThresholds == {0, 20}
EvalNow == {5400}
EvalTimestamps == {BadTs} \cup {Ts(t) : t \in {0, 1799, 1800, 1801, 5400, 5460}}

\* the session's variables, at rest while a function is studied on its own
AtRest ==
    /\ environ \in {e \in Environs : e["GOOGLE_SHEET_ID"] = <<>>}
    /\ printer_dropdown = "die Fotobox"
    /\ sheet_id_field = <<>>
    /\ log_text = Plain("")
    /\ status_text = InitialDisplay.status_text
    /\ timestamp_text = InitialDisplay.timestamp_text
    /\ status_badge_value = InitialDisplay.status_badge_value
    /\ status_badge_bgcolor = InitialDisplay.status_badge_bgcolor
    /\ progress_bar = InitialDisplay.progress_bar
    /\ progress_label = InitialDisplay.progress_label
    /\ stats_text = InitialDisplay.stats_text
    /\ pc = "call"
    /\ live_loops = 0
    /\ sleep_left = 0
    /\ since_cycle = SLEEP_SECONDS

InitEval ==
    /\ AtRest
    /\ sheet = EmptyDataFrame
    /\ fetch = <<>>
    /\ eval_call \in {<<[raw_status |-> rs, media_remaining |-> m, timestamp |-> ts,
                         warning_threshold |-> th, now_ts |-> now]>> :
                        rs \in RawStatuses, m \in EvalMedia, ts \in EvalTimestamps,
                        th \in EvalThresholds, now \in EvalNow}
    /\ eval_ret = <<>>
    /\ stats_call = <<>>
    /\ stats_ret = <<>>
    /\ humanize_call = <<>>
    /\ humanize_ret = <<>>

\* one call of evaluate_status_simple
EvaluateStatus ==
    /\ pc = "call"
    /\ eval_call # <<>>
    /\ eval_ret = <<>>
    /\ LET c == eval_call[1]
       IN  eval_ret' = <<evaluate_status_simple(c.raw_status, c.media_remaining,
                                                c.timestamp, c.warning_threshold,
                                                c.now_ts)>>
    /\ UNCHANGED <<pc, environ, sheet_id_field, printer_dropdown, log_text, sheet,
                   fetch, eval_call, stats_call, stats_ret>>
    /\ UNCHANGED ui_vars
    /\ UNCHANGED sched_vars
    /\ UNCHANGED humanize_vars

NextEval == EvaluateStatus

SpecEval == InitEval /\ [][NextEval]_vars

-----------------------------------------------------------------------------
(* The loader and the estimator on their own: get_data on a worksheet,     *)
(* then compute_print_stats on what it returned                            *)

\* window_min: the default of compute_print_stats, and a shorter window
Windows == {30, 10}
MediaFactors == {1, 2}

InitStats ==
    /\ AtRest
    /\ sheet \in Sheets(MaxHist)
    /\ fetch = <<>>
    /\ eval_call = <<>>
    /\ eval_ret = <<>>
    /\ stats_call = <<>>
    /\ stats_ret = <<>>
    /\ humanize_call = <<>>
    /\ humanize_ret = <<>>

\* one call of get_data: the read returns the worksheet's records or raises
GetData ==
    /\ pc = "call"
    /\ fetch = <<>>
    /\ \E raises \in BOOLEAN :
         LET outcome == [raises |-> raises,
                         records |-> IF raises THEN EmptyDataFrame ELSE sheet]
             got == get_data(outcome)
         IN  fetch' = <<[outcome |-> outcome, raised |-> got.raised, df |-> got.df]>>
    /\ UNCHANGED <<pc, environ, sheet_id_field, printer_dropdown, log_text, sheet,
                   eval_call, eval_ret, stats_call, stats_ret>>
    /\ UNCHANGED ui_vars
    /\ UNCHANGED sched_vars
    /\ UNCHANGED humanize_vars

\* one call of compute_print_stats on a table: the one get_data returned, or
\* the worksheet's records as they are
ComputePrintStats ==
    /\ pc = "call"
    /\ fetch # <<>>
    /\ ~fetch[1].raised
    /\ stats_ret = <<>>
    /\ \E df \in {fetch[1].df, sheet}, window_min \in Windows, media_factor \in MediaFactors :
         \E prep \in _prepare_history_df(df) :
            /\ stats_call' = <<[df |-> df, window_min |-> window_min,
                                media_factor |-> media_factor]>>
            /\ stats_ret' = <<[prep |-> prep,
                               result |-> compute_print_stats(prep, window_min, media_factor)]>>
    /\ UNCHANGED <<pc, environ, sheet_id_field, printer_dropdown, log_text, sheet,
                   fetch, eval_call, eval_ret>>
    /\ UNCHANGED ui_vars
    /\ UNCHANGED sched_vars
    /\ UNCHANGED humanize_vars

NextStats == GetData \/ ComputePrintStats

SpecStats == InitStats /\ [][NextStats]_vars

-----------------------------------------------------------------------------------------------------------------------------------------------------
(* The duration formatter on its own: humanize_minutes on one argument     *)

\* the largest numerator of an argument
MaxNumer == 400

\* the arguments: None, and the fractions n/1 and n/3 around zero and up
\* to more than two hours
MinutesInputs ==
    {None_} \cup {Float(n, d) : n \in (-3)..MaxNumer, d \in {1, 3}}

InitHumanize ==
    /\ AtRest
    /\ sheet = EmptyDataFrame
    /\ fetch = <<>>
    /\ eval_call = <<>>
    /\ eval_ret = <<>>
    /\ stats_call = <<>>
    /\ stats_ret = <<>>
    /\ humanize_call \in {<<x>> : x \in MinutesInputs}
    /\ humanize_ret = <<>>

\* one call of humanize_minutes: the record of its f-string and its text
HumanizeMinutes ==
    /\ pc = "call"
    /\ humanize_call # <<>>
    /\ humanize_ret = <<>>
    /\ LET f == humanize_minutes(humanize_call[1])
       IN  humanize_ret' = <<[f |-> f, text |-> humanize_text(f)]>>
    /\ UNCHANGED <<pc, environ, sheet_id_field, printer_dropdown, log_text, sheet,
                   fetch, eval_call, eval_ret, stats_call, stats_ret, humanize_call>>
    /\ UNCHANGED ui_vars
    /\ UNCHANGED sched_vars

NextHumanize == HumanizeMinutes

SpecHumanize == InitHumanize /\ [][NextHumanize]_vars

-----
(* Claims about evaluate_status_simple, under SpecEval                     *)

\* the age of the observation of call c, in seconds
AgeSeconds(c) == c.now_ts - c.timestamp.t

\* call c is not stale: its timestamp does not parse, or is at most 60 min old
NotStale(c) == ~c.timestamp.ok \/ AgeSeconds(c) <= 60 * 60

\* the rules in their order, each with whether it matches call c
RuleTable(c) ==
    LET text == Strip(Lower(c.raw_status))
        has(kw) == \E i \in 1..(Len(text) - Len(kw) + 1) :
                      \A j \in 1..Len(kw) : text[i + j - 1] = kw[j]
        any(kws) == \E k \in 1..Len(kws) : has(kws[k])
    IN  << [state |-> "error", matches |-> any(hard_errors)],
           [state |-> "cover_open", matches |-> any(cover_open_kw)],
           [state |-> "low_paper", matches |-> c.media_remaining <= c.warning_threshold],
           [state |-> "cooldown", matches |-> any(cooldown_kw)],
           [state |-> "printing", matches |-> any(printing_kw)],
           [state |-> "ready", matches |-> TRUE] >>

\* the state of the first rule that matches call c
FirstMatch(c) ==
    LET t == RuleTable(c)
        k == CHOOSE i \in 1..Len(t) : t[i].matches /\ \A j \in 1..(i - 1) : ~t[j].matches
    IN  t[k].state

PaperJam == <<"p", "a", "p", "e", "r", " ", "j", "a", "m">>

\* C1: for an observation that is not stale, evaluate_status_simple returns
\* the state of the first matching rule in the order error > cover_open >
\* low_paper > cooldown > printing > ready, on the lower-cased, trimmed text:
\* "paper jam" in any case gives error for any media count, and
\* media_remaining <= warning_threshold gives low_paper whenever no error or
\* cover-open keyword is present, empty text and cooldown or printing texts
\* included.
C1_FirstMatchingRuleWins ==
    \A i \in 1..Len(eval_ret) :
        LET c == eval_call[i]
            r == eval_ret[i]
            t == RuleTable(c)
        IN  NotStale(c) =>
              /\ r.status_mode = FirstMatch(c)
              /\ Contains(PaperJam, Lower(c.raw_status)) => r.status_mode = "error"
              /\ (c.media_remaining <= c.warning_threshold
                  /\ ~t[1].matches /\ ~t[2].matches) => r.status_mode = "low_paper"

\* a fresh observation whose text says the head is cooling down while
\* printing, with the paper at or under the threshold, is shown as low_paper
C1_Witness ==
    /\ eval_ret # <<>>
    /\ NotStale(eval_call[1])
    /\ Contains(cooldown_kw[1], Lower(eval_call[1].raw_status))
    /\ Contains(printing_kw[1], Lower(eval_call[1].raw_status))
    /\ eval_call[1].media_remaining <= eval_call[1].warning_threshold
    /\ eval_ret[1].status_mode = "low_paper"

\* C2: the heartbeat check.  A timestamp that parses and is more than 60
\* minutes old gives stale with warning severity, whatever the underlying
\* classification; at 60 minutes or less the state, the text and the severity
\* are those of the underlying classification; a timestamp that does not
\* parse gives a null staleness and leaves the classification as it is.
C2_StalenessOverride ==
    \A i \in 1..Len(eval_ret) :
        LET c == eval_call[i]
            r == eval_ret[i]
            under == candidate_status(c.raw_status, c.media_remaining, c.warning_threshold)
            same == /\ r.status_mode = under.status_mode
                    /\ r.display_text = under.display_text
                    /\ r.display_color = under.display_color
        IN  /\ (c.timestamp.ok /\ AgeSeconds(c) > 60 * 60) =>
                 /\ r.status_mode = "stale"
                 /\ r.display_color = "orange"
            /\ (c.timestamp.ok /\ AgeSeconds(c) <= 60 * 60) =>
                 /\ same
                 /\ ~r.minutes_diff.none
                 /\ r.minutes_diff.n * 60 = AgeSeconds(c) * r.minutes_diff.d
            /\ ~c.timestamp.ok => (same /\ r.minutes_diff.none)

\* an observation exactly 60 minutes old keeps its classification
C2_Witness ==
    /\ eval_ret # <<>>
    /\ eval_call[1].timestamp.ok
    /\ AgeSeconds(eval_call[1]) = 60 * 60
    /\ eval_ret[1].status_mode = "printing"

-----------------------------------------------------------------------------
(* Claims about the poll cycle, under Spec                                 *)

\* C3: in a cycle that reaches classification, the observation handed to the
\* classifier (status text, media count, timestamp) is the most recent
\* observation of the history: the last element of the normalized series,
\* which the estimator uses as its last observation.
C3_ClassifierGetsMostRecent ==
    (eval_call # <<>> /\ stats_ret # <<>> /\ stats_ret[1].prep.rows # <<>>) =>
        LET c == eval_call[1]
            rows == stats_ret[1].prep.rows
            last == rows[Len(rows)]
        IN  /\ c.timestamp.ok
            /\ c.timestamp.t = last.Timestamp
            /\ c.raw_status = last.Status
            /\ c.media_remaining = last.MediaRemaining * stats_call[1].media_factor

-----------------------------------------------------------------------------
(* Claims about the loader and the estimator, under SpecStats              *)

\* the normalized series and the result of the call, and its arguments
TheSeries == stats_ret[1].prep.rows
TheStats == stats_ret[1].result
TheFactor == stats_call[1].media_factor
TheWindow == stats_call[1].window_min

\* C4: for any history, refills included, prints_total is
\* max(0, (media of the first observation - media of the last) * media_factor)
\* and duration_min is the last timestamp minus the first of the normalized
\* series; neither is ever negative.
C4_TotalsClampedAndNonNegative ==
    stats_ret # <<>> =>
        /\ TheStats.prints_total >= 0
        /\ TheStats.duration_min.n >= 0
        /\ TheStats.duration_min.d > 0
        /\ TheSeries # <<>> =>
             LET first == TheSeries[1]
                 last == TheSeries[Len(TheSeries)]
                 delta == (first.MediaRemaining - last.MediaRemaining) * TheFactor
             IN  /\ TheStats.prints_total = (IF delta > 0 THEN delta ELSE 0)
                 /\ TheStats.duration_min.n * 60
                      = (last.Timestamp - first.Timestamp) * TheStats.duration_min.d

\* a refill between the first and the last observation: the total is 0
C4_Witness ==
    /\ stats_ret # <<>>
    /\ Len(TheSeries) >= 2
    /\ TheSeries[1].MediaRemaining < TheSeries[Len(TheSeries)].MediaRemaining
    /\ TheSeries[1].Timestamp < TheSeries[Len(TheSeries)].Timestamp
    /\ TheStats.prints_total = 0

\* C5: ppm_overall is populated if and only if the normalized series has at
\* least 2 observations and prints_total > 0 and duration_min > 0, and is then
\* prints_total / duration_min (400 -> 350 over 10 minutes with factor 1 gives
\* 5.0); with fewer than 2 observations prints_total and duration_min are 0
\* and both rates are null.
C5_OverallThroughput ==
    stats_ret # <<>> =>
        LET r == TheStats
            scenarioA == /\ Len(TheSeries) = 2
                         /\ TheSeries[1].Timestamp = 0
                         /\ TheSeries[1].MediaRemaining = 400
                         /\ TheSeries[2].Timestamp = 600
                         /\ TheSeries[2].MediaRemaining = 350
                         /\ TheFactor = 1
        IN  /\ ~r.ppm_overall.none <=>
                  (Len(TheSeries) >= 2 /\ r.prints_total > 0 /\ r.duration_min.n > 0)
            /\ ~r.ppm_overall.none =>
                  r.ppm_overall.n * r.duration_min.n
                     = r.prints_total * r.duration_min.d * r.ppm_overall.d
            /\ scenarioA => (r.prints_total = 50 /\ r.ppm_overall.n = 5 * r.ppm_overall.d)
            /\ Len(TheSeries) < 2 =>
                  /\ r.prints_total = 0
                  /\ r.duration_min.n = 0
                  /\ r.ppm_overall.none
                  /\ r.ppm_window.none

\* 400 -> 350 over ten minutes, factor 1: 5 prints a minute
C5_Witness ==
    /\ stats_ret # <<>>
    /\ Len(TheSeries) = 2
    /\ TheSeries[1].MediaRemaining = 400
    /\ TheSeries[2].MediaRemaining = 350
    /\ TheSeries[2].Timestamp - TheSeries[1].Timestamp = 600
    /\ TheFactor = 1
    /\ ~TheStats.ppm_overall.none
    /\ TheStats.ppm_overall.n = 5 * TheStats.ppm_overall.d

\* the first position of the series at or after (last timestamp - window)
WindowFrom ==
    LET start == TheSeries[Len(TheSeries)].Timestamp - TheWindow * 60
    IN  CHOOSE k \in 1..Len(TheSeries) :
           /\ TheSeries[k].Timestamp >= start
           /\ \A j \in 1..(k - 1) : TheSeries[j].Timestamp < start

\* C6: the trailing window is the suffix of the normalized series whose
\* timestamps are >= (last timestamp - window length), the boundary included;
\* ppm_window is null when that suffix holds fewer than 2 observations and is
\* never zero: it is non-null only when the clamped prints and the duration
\* within the window are both strictly positive, and is then their ratio.
C6_WindowThroughput ==
    (stats_ret # <<>> /\ Len(TheSeries) >= 2) =>
        LET k == WindowFrom
            n == Len(TheSeries)
            start == TheSeries[n].Timestamp - TheWindow * 60
            delta == (TheSeries[k].MediaRemaining - TheSeries[n].MediaRemaining) * TheFactor
            prints_win == IF delta > 0 THEN delta ELSE 0
            seconds_win == TheSeries[n].Timestamp - TheSeries[k].Timestamp
            w == TheStats.ppm_window
        IN  /\ \A j \in k..n : TheSeries[j].Timestamp >= start
            /\ window_rows(TheSeries, TheWindow) = SubSeq(TheSeries, k, n)
            /\ (n - k + 1 < 2) => w.none
            /\ ~w.none <=> (n - k + 1 >= 2 /\ prints_win > 0 /\ seconds_win > 0)
            /\ ~w.none => (w.n # 0 /\ w.n * seconds_win = prints_win * 60 * w.d)

\* an observation exactly window_min before the last one counts
C6_Witness ==
    /\ stats_ret # <<>>
    /\ Len(TheSeries) >= 2
    /\ TheSeries[WindowFrom].Timestamp
         = TheSeries[Len(TheSeries)].Timestamp - TheWindow * 60
    /\ WindowFrom > 1
    /\ ~TheStats.ppm_window.none

\* the rows of table df that pass both parses, stably sorted by Timestamp
StableNormalized(df) ==
    LET K == {i \in 1..Len(df.rows) :
                df.rows[i].Timestamp.ok /\ df.rows[i].MediaRemaining.kind = "int"}
        before(j, i) ==
            \/ df.rows[j].Timestamp.t < df.rows[i].Timestamp.t
            \/ (df.rows[j].Timestamp.t = df.rows[i].Timestamp.t /\ j < i)
        at(k) == CHOOSE i \in K : Cardinality({j \in K : before(j, i)}) = k - 1
    IN  [k \in 1..Cardinality(K) |->
            [Timestamp |-> df.rows[at(k)].Timestamp.t,
             Status |-> df.rows[at(k)].Status,
             MediaRemaining |-> df.rows[at(k)].MediaRemaining.v]]

\* C7: _prepare_history_df returns exactly the rows whose timestamp parses
\* and whose MediaRemaining is numeric, ordered by timestamp ascending, rows
\* of equal timestamp in their original relative order (a stable sort).
C7_ExactRowsStableOrder ==
    (stats_ret # <<>>
     /\ ~df_empty(stats_call[1].df)
     /\ {"Timestamp", "MediaRemaining"} \subseteq stats_call[1].df.columns) =>
        TheSeries = StableNormalized(stats_call[1].df)

\* every row of table df fails a parse
AllRowsFail(df) ==
    \A i \in 1..Len(df.rows) :
        ~df.rows[i].Timestamp.ok \/ df.rows[i].MediaRemaining.kind # "int"

\* C8: the loader fails soft.  A read that raises makes get_data return an
\* empty table instead of propagating; _prepare_history_df returns an empty
\* series without raising when the table is empty, when Timestamp or
\* MediaRemaining is absent, or when every row fails parsing; no later stage
\* sees an exception of the read.
C8_LoaderFailsSoft ==
    /\ \A i \in 1..Len(fetch) :
          /\ ~fetch[i].raised
          /\ fetch[i].outcome.raises => fetch[i].df = EmptyDataFrame
    /\ \A i \in 1..Len(stats_ret) :
          LET df == stats_call[i].df
          IN  /\ ~stats_ret[i].prep.raised
              /\ ~stats_ret[i].result.raised
              /\ (\/ df_empty(df)
                  \/ "Timestamp" \notin df.columns
                  \/ "MediaRemaining" \notin df.columns
                  \/ AllRowsFail(df)) => stats_ret[i].prep.rows = <<>>

\* the read raised, get_data returned the empty table, and the estimator ran
\* on it to an empty series
C8_Witness ==
    /\ fetch # <<>>
    /\ fetch[1].outcome.raises
    /\ sheet.rows # <<>>
    /\ stats_ret # <<>>
    /\ stats_call[1].df = EmptyDataFrame
    /\ stats_ret[1].prep.rows = <<>>
    /\ TheStats.ppm_overall.none

-----------------------------------------------------------------------------
(* Claims about the poll loop, under Spec and FairSpec                     *)

\* C9: in a cycle whose table is empty or lacks a required column, the
\* classifier and the estimator are not invoked; an empty table shows the
\* waiting-for-data state, a non-empty table without a required column shows
\* the schema-error state, and never the other way round.
C9_NoRowsAndBadSchemaDistinct ==
    \A i \in 1..Len(fetch) :
        LET df == fetch[i].df
            no_calls == eval_call = <<>> /\ eval_ret = <<>>
                        /\ stats_call = <<>> /\ stats_ret = <<>>
        IN  /\ df_empty(df) =>
                 /\ no_calls
                 /\ status_badge_value = "-"
                 /\ status_text = Plain("System wartet auf Start... (Tab 'DruckerStatus' hat 0 Zeilen)")
                 /\ timestamp_text.fmt = "Noch keine Druckdaten im Google Sheet."
            /\ (~df_empty(df) /\ ~(required_cols \subseteq df.columns)) =>
                 /\ no_calls
                 /\ status_badge_value = "SCHEMA"
                 /\ status_text.fmt = "Fehlende Spalten im Tab 'DruckerStatus': {missing}"
                 /\ timestamp_text.fmt = "Bitte Spaltennamen im Sheet pruefen."

\* a table with rows and no Status column shows the schema error
C9_Witness ==
    /\ fetch # <<>>
    /\ fetch[1].df.rows # <<>>
    /\ "Status" \notin fetch[1].df.columns
    /\ status_badge_value = "SCHEMA"
    /\ eval_ret = <<>>

\* C10: the poll loop never crashes.  Whatever a cycle meets (a failed read,
\* an empty table, missing columns, rows that do not parse, fewer than 2
\* usable observations, a latest timestamp that does not parse),
\* update_status returns normally: the loop is never dead, every cycle ends
\* in the sleep and every sleep ends in another cycle.
C10_PollLoopNeverCrashes ==
    /\ [](pc \in {"update_status", "sleep"})
    /\ [][(pc = "update_status" /\ pc' # pc) => pc' = "sleep"]_vars
    /\ [][(pc = "sleep" /\ pc' # pc) => pc' = "update_status"]_vars

\* a cycle whose latest row holds a MediaRemaining that is no number came
\* back and the loop sleeps
C10_Witness ==
    /\ pc = "sleep"
    /\ fetch # <<>>
    /\ eval_ret # <<>>
    /\ latest_row(fetch[1].df).MediaRemaining.kind = "text"
    /\ Len(stats_ret[1].prep.rows) < 2

-----------------------------------------------------------------------------
(* Claims about the scheduling of the poll loop, under Spec                *)

-----------------------------------------------------------------------------
(* Claims about what a cycle leaves on the display, under Spec             *)

\* a display no cycle produces: every field holds a mark
Unwritten ==
    Display(Plain("unwritten"), TsFmt("unwritten", NoTimestamp, <<>>),
            "unwritten", "unwritten", Float(-1, 1), Plain("unwritten"),
            <<StatsLine("unwritten", <<>>, Plain(""))>>)

\* C12: every poll cycle overwrites the whole UI-facing output.  After any
\* cycle that returns, on every branch of update_status, each displayed field
\* (status text, badge and its colour, timestamp line, paper progress and
\* label, statistics text) holds a value that cycle produced: the display
\* after the cycle is what the same cycle leaves on a display of marks, so
\* no field keeps what was there before.
C12_CycleOverwritesWholeDisplay ==
    [][(pc = "update_status" /\ pc' = "sleep") =>
        LET self == [sheet_id_field |-> sheet_id_field, environ |-> environ,
                     printer_dropdown |-> printer_dropdown,
                     display |-> Unwritten, log_text |-> log_text]
            outcome == IF fetch' # <<>> THEN fetch'[1].outcome
                       ELSE [raises |-> TRUE, records |-> EmptyDataFrame]
            now_ts == IF eval_call' # <<>> THEN eval_call'[1].now_ts ELSE 0
            prep == IF stats_ret' # <<>> THEN stats_ret'[1].prep
                    ELSE [raised |-> FALSE, rows |-> <<>>]
        IN  CurrentDisplay' = update_status(self, outcome, now_ts, prep).display]_vars

-----------------------------------------------------------------------------
(* Claims about humanize_minutes, under SpecHumanize                       *)

\* the whole number a positive fraction x truncates to
Truncated(x) == CHOOSE m \in 0..MaxNumer : m * x.d <= x.n /\ x.n < (m + 1) * x.d

\* C13: humanize_minutes.  For None or minutes <= 0 the result is the
\* zero-minutes text "0 Min.".  Otherwise, with m the minutes truncated to a
\* whole number: when m >= 60 the result shows hours h and minutes r with
\* 60 * h + r = m and 0 <= r < 60; when m < 60 it shows the minutes only,
\* value m, which for 0 < minutes < 1 is the zero-minutes text.
C13_HumanizeMinutes ==
    humanize_ret # <<>> =>
        LET x == humanize_call[1]
            text == humanize_ret[1].text
            zero == <<"0", " ", "M", "i", "n", ".">>
        IN  IF x.none \/ x.n <= 0
            THEN text = zero
            ELSE LET m == Truncated(x)
                 IN  /\ m >= 60 =>
                          \E h \in 1..MaxNumer, r \in 0..59 :
                             /\ 60 * h + r = m
                             /\ text = str_int(h) \o <<" ", "S", "t", "d", ".", " ">> \o str_int(r) \o <<" ", "M", "i", "n", ".">>
                     /\ m < 60 => text = str_int(m) \o <<" ", "M", "i", "n", ".">>
                     /\ m = 0 => text = zero

\* 125 1/3 minutes read "2 Std. 5 Min."
C13_Witness ==
    /\ humanize_ret # <<>>
    /\ humanize_call[1] = Float(376, 3)
    /\ humanize_ret[1].text = <<"2", " ", "S", "t", "d", ".", " ", "5", " ", "M", "i", "n", ".">>

====
